---- MODULE Spec2Model ----
(***************************************************************************)
(* Grievance cell backend: the request handlers of routes.ts over the two  *)
(* storage backends (InMemoryStorage, DatabaseStorage).                    *)
(*                                                                         *)
(* Time is in milliseconds, as Date.getTime() gives it.  A grievance id is *)
(* its position in the table (ids are uuids in the code: unique, opaque).  *)
(* title, description and the notification message carry no behaviour and  *)
(* are left out of the records.                                            *)
(***************************************************************************)
EXTENDS Integers, Sequences, FiniteSets, TLC

VARIABLES
    backend,        \* "memory" | "database": what createStorage selected
    users,          \* users table: user id -> role
    clock,          \* wall clock, ms
    nreq,           \* number of requests received so far
    grievances,     \* grievances table, in creation order
    files,          \* files table
    notifications,  \* notifications table
    inflight,       \* handlers suspended at an await: slot -> request
    response,       \* the HTTP response sent last
    prioritySetAt,  \* history: per grievance, the `now` of the call whose write set its priority
    fsDoc,          \* admin dashboard: the grievance document in the Firestore collection
    dash,           \* admin dashboard: per admin session, its React state and its write in flight
    ncomments,      \* admin dashboard: number of comments composed so far
    writtenComments, \* history: the comments whose updateDoc resolved
    comments,       \* comments table
    assignments,    \* assignments table
    authUser,       \* App: the user Firebase Auth holds signed in
    userDocs,       \* App: the Firestore users collection, uid -> role
    currentUser,    \* App: React state currentUser
    appLoading,     \* App: React state loading
    getDocPending,  \* App: auth callbacks suspended at await getDoc
    nauth,          \* App: number of auth-state change events so far
    registerLoading, \* Register: React state loading
    registerError,  \* Register: React state error
    attempt,        \* Register: per valid submission, the position of its handleSubmit
    timers,         \* Register: the attempts whose setTimeout is armed
    nattempts       \* Register: number of submissions so far

serverVars == <<backend, users, clock, nreq, grievances, files, notifications,
                inflight, response, prioritySetAt>>

dashVars == <<fsDoc, dash, ncomments, writtenComments>>

recordVars == <<comments, assignments>>

appVars == <<authUser, userDocs, currentUser, appLoading, getDocPending, nauth>>

registerVars == <<registerLoading, registerError, attempt, timers, nattempts>>

vars == <<serverVars, dashVars, recordVars, appVars, registerVars>>

----------------------------------------------------------------------------
\* Bounds of the model

MaxGrievances == 2
MaxInFlight == 2
MaxClock == 1
MaxRequests == 3
MaxFiles == 1
MaxComments == 3
MaxRecords == 2
MaxAuthEvents == 3
MaxAttempts == 2
MaxHours == 48

----------------------------------------------------------------------------
\* Values

\* A nullable timestamp column / an undefined Date (schema.ts: sla_deadline, resolved_at)
NullTime == -1

\* A nullable user reference (userId of an anonymous grievance)
NoUser == "null"

MsPerHour == 3600000

Roles == {"student", "faculty", "staff", "administrator"}
Categories == {"academic", "infrastructure", "administrative", "urgent"}
Priorities == {"low", "medium", "high", "critical"}
Statuses == {"submitted", "under_review", "assigned", "in_progress", "resolved", "closed"}

\* The users table the handlers run against (users are upserted at login by the
\* identity provider; no handler modelled here changes the table).
InitialUsers ==
    [u \in {"stu1", "stu2", "staff1", "fac1", "admin1"} |->
        CASE u = "staff1" -> "staff"
          [] u = "fac1"   -> "faculty"
          [] u = "admin1" -> "administrator"
          [] OTHER        -> "student"]

\* An authenticated subject that has no row in users (req.user.claims.sub unknown)
GhostUser == "ghost"

\* App.tsx: no user in the React state; the users collection of Firestore
NullUser == [uid |-> NoUser, role |-> NoUser]
InitialUserDocs == [u \in {"adminA", "studentB"} |-> IF u = "adminA" THEN "admin" ELSE "student"]

\* Register: the messages setError is called with
TimedOut == "Registration timed out. Please try again."
ErrorOf(code) ==
    CASE code = "auth/email-already-in-use" -> "This email is already registered"
      [] code = "auth/network-request-failed" ->
             "Network error. Please check your internet connection"
      [] OTHER -> "Registration failed"

Callers == DOMAIN InitialUsers \cup {GhostUser}

\* Ids a request may name: the rows, one id that matches no row, and ProtoKey:
\* a name every plain JS object inherits ("constructor"), which the in-memory
\* tables, being plain objects, answer with a non-grievance object.
ProtoKey == 0
RequestIds == 0 .. (MaxGrievances + 1)

\* What generateTrackingId may return: nanoid draws at random, so any value,
\* one already used included.
TrackingIds == {"GRV-AAAA-AAAA", "GRV-BBBB-BBBB"}

Idle == [op |-> "idle"]

\* No response sent yet
NoResponse ==
    [op |-> "none", actor |-> NoUser, target |-> NullTime,
     arg |-> "", now |-> NullTime, code |-> 0, body |-> <<>>]

----------------------------------------------------------------------------
\* routes.ts helpers

\* A string that names a property every object literal inherits from
\* Object.prototype, and the value found under it: the function Object
InheritedKey == "constructor"
ObjectFunction == "function Object() { [native code] }"

\* new Date(NaN): an Invalid Date (truthy, compares false with everything,
\* serialised as null)
InvalidDate == -2

\* The hours table of calculateSlaDeadline, `|| 72` included, for the strings
\* that name no inherited property
SlaHours(priority) ==
    CASE priority = "critical" -> 24
      [] priority = "high"     -> 48
      [] priority = "medium"   -> 72
      [] priority = "low"      -> 120
      [] OTHER                 -> 72

\* Variant of calculateSlaDeadline that ignores the table: always 72 hours
calculateSlaDeadline_flat(priority, now) ==
    now + 72 * MsPerHour

\* The table is an object literal too: for an inherited property name the
\* lookup gives a function, `hours * 60 * 60 * 1000` is NaN and so is the time
calculateSlaDeadline(priority, now) ==
    IF priority = InheritedKey
    THEN InvalidDate
    ELSE now + SlaHours(priority) * MsPerHour

\* priorityMap[category] || "medium": priorityMap is an object literal, so the
\* lookup also finds inherited properties, and those are truthy
getAutoPriority(category) ==
    CASE category = "urgent"         -> "critical"
      [] category = "academic"       -> "high"
      [] category = "infrastructure" -> "medium"
      [] category = "administrative" -> "low"
      [] category = InheritedKey     -> ObjectFunction
      [] OTHER                       -> "medium"

\* storage.getUser: the row, or undefined
UserExists(id) == id \in DOMAIN users
RoleOf(id) == IF UserExists(id) THEN users[id] ELSE "undefined"

\* user && ["administrator", "staff", "faculty"].includes(user.role)
IsStaffLevel(id) == UserExists(id) /\ users[id] \in {"administrator", "staff", "faculty"}

\* Variant of the administrator check that also lets staff through
IsAdministrator_orStaff(id) == UserExists(id) /\ users[id] \in {"administrator", "staff"}

\* user && user.role === "administrator"
IsAdministrator(id) == UserExists(id) /\ users[id] = "administrator"

----------------------------------------------------------------------------
\* Storage (InMemoryStorage in login.tsx, DatabaseStorage in unnamed/part_005)

Ids == 1 .. Len(grievances)

\* InMemoryStorage.createGrievance / the row DatabaseStorage.createGrievance returns:
\* the data, a fresh id, createdAt and updatedAt from the clock at the insert.
createGrievance(data, now) ==
    [id             |-> Len(grievances) + 1,
     trackingId     |-> data.trackingId,
     userId         |-> data.userId,
     isAnonymous    |-> data.isAnonymous,
     isConfidential |-> data.isConfidential,
     category       |-> data.category,
     priority       |-> data.priority,
     status         |-> data.status,
     slaDeadline    |-> data.slaDeadline,
     createdAt      |-> now,
     updatedAt      |-> now,
     resolvedAt     |-> NullTime]

\* The constraints of the grievances table (schema.ts): the category enum, the
\* unique tracking id, the user reference.  The in-memory table has none.
InsertGrievanceThrows(data) ==
    /\ backend = "database"
    /\ \/ data.category \notin Categories
       \/ \E i \in Ids : grievances[i].trackingId = data.trackingId
       \/ data.userId # NoUser /\ ~UserExists(data.userId)

\* updateGrievanceStatus: status and updatedAt always, resolvedAt only when given
\* Variant of updateGrievanceStatus that writes resolvedAt in every call, null included
updateGrievanceStatus_writeResolvedAt(g, status, resolvedAt, now) ==
    [g EXCEPT !.status = status,
              !.resolvedAt = resolvedAt,
              !.updatedAt = now]

\* Variant of updateGrievanceStatus that also rewrites createdAt
updateGrievanceStatus_touchCreatedAt(g, status, resolvedAt, now) ==
    [g EXCEPT !.status = status,
              !.resolvedAt = IF resolvedAt # NullTime THEN resolvedAt ELSE @,
              !.createdAt = now,
              !.updatedAt = now]

updateGrievanceStatus(g, status, resolvedAt, now) ==
    [g EXCEPT !.status = status,
              !.resolvedAt = IF resolvedAt # NullTime THEN resolvedAt ELSE @,
              !.updatedAt = now]

\* Variant of updateGrievancePriority that writes the priority and keeps the old deadline
updateGrievancePriority_keepDeadline(g, priority, slaDeadline, now) ==
    [g EXCEPT !.priority = priority,
              !.updatedAt = now]

\* updateGrievancePriority: priority, slaDeadline and updatedAt in one write
updateGrievancePriority(g, priority, slaDeadline, now) ==
    [g EXCEPT !.priority = priority,
              !.slaDeadline = slaDeadline,
              !.updatedAt = now]

\* What an update of row `id` does before the handler reads the result:
\*   "row"     a row is updated and returned
\*   "object"  memory: this.grievances[id] is an inherited non-grievance object;
\*             the assignments land on it and it is returned (no row changes)
\*   "throws"  memory: g is undefined and `g.status = ...` throws;
\*             database: the enum rejects the value
\*   "norow"   database: no row matches, the update returns undefined
UpdateOutcome(id, value, enum) ==
    IF backend = "memory"
    THEN IF id \in Ids THEN "row"
         ELSE IF id = ProtoKey THEN "object" ELSE "throws"
    ELSE IF value \notin enum THEN "throws"
         ELSE IF id \in Ids THEN "row" ELSE "norow"

\* Variant of createNotification that stores the notification as already read
createNotification_read(userId, grievanceId, title) ==
    [userId |-> userId, grievanceId |-> grievanceId, title |-> title, isRead |-> TRUE]

createNotification(userId, grievanceId, title) ==
    [userId |-> userId, grievanceId |-> grievanceId, title |-> title, isRead |-> FALSE]

createFile(grievanceId, uploadedBy) ==
    [grievanceId |-> grievanceId, uploadedBy |-> uploadedBy]

----------------------------------------------------------------------------
\* Scheduling

\* The lowest free handler slot (slots are interchangeable)
FreeSlot(s) ==
    /\ inflight[s] = Idle
    /\ \A t \in 1 .. (s - 1) : inflight[t] # Idle

\* InMemoryStorage's methods hold no await: from the handler's sample of the clock
\* to the end of the write nothing else runs on the event loop.
SyncBusy == backend = "memory" /\ \E s \in 1 .. MaxInFlight : inflight[s] # Idle

CanAccept == nreq < MaxRequests /\ ~SyncBusy

SubmitsInFlight == Cardinality({s \in 1 .. MaxInFlight : inflight[s].op = "submit"})

\* res.status(code).json(body), with the request it answers: who asked (actor),
\* for which id or tracking id (target), with which value (arg), and the clock
\* value the handler sampled (now).
Respond(op, actor, target, arg, now, code, body) ==
    response' = [op |-> op, actor |-> actor, target |-> target,
                 arg |-> arg, now |-> now, code |-> code, body |-> body]

\* res.status(403).json({ message: "Forbidden" }): sent before the request is read further
Forbidden(op, actor) == Respond(op, actor, NullTime, "", NullTime, 403, <<>>)

----------------------------------------------------------------------------
\* POST /api/grievances

\* Up to the call of storage.createGrievance: priority, deadline and tracking id
\* are computed from the request and the clock.
SubmitBegin(s, actor, category, isAnonymous, isConfidential, nfiles, tid) ==
    /\ CanAccept
    /\ FreeSlot(s)
    /\ Len(grievances) + SubmitsInFlight < MaxGrievances
    /\ LET priority == getAutoPriority(category)
       IN inflight' = [inflight EXCEPT ![s] =
            [op     |-> "submit",
             actor  |-> actor,
             nfiles |-> nfiles,
             now    |-> clock,
             data   |-> [userId         |-> IF isAnonymous THEN NoUser ELSE actor,
                         trackingId     |-> tid,
                         category       |-> category,
                         priority       |-> priority,
                         isAnonymous    |-> isAnonymous,
                         isConfidential |-> isConfidential,
                         slaDeadline    |-> calculateSlaDeadline(priority, clock),
                         status         |-> "submitted"]]]
    /\ nreq' = nreq + 1
    /\ UNCHANGED <<dashVars, recordVars, appVars, registerVars>>
    /\ UNCHANGED <<backend, users, clock, grievances, files, notifications,
                   response, prioritySetAt>>

\* The insert, the file rows, the notification and the response.
SubmitComplete(s) ==
    /\ inflight[s].op = "submit"
    /\ LET r == inflight[s]
           g == createGrievance(r.data, clock)
       IN IF InsertGrievanceThrows(r.data)
          THEN /\ Respond("submit", r.actor, NullTime, r.data.category, r.now, 500, <<>>)
               /\ UNCHANGED <<grievances, files, notifications, prioritySetAt>>
          ELSE /\ grievances' = Append(grievances, g)
               /\ prioritySetAt' = Append(prioritySetAt, r.now)
               /\ files' = files \o [k \in 1 .. r.nfiles |->
                                        createFile(g.id, IF r.data.isAnonymous THEN NoUser ELSE r.actor)]
               /\ notifications' =
                    IF ~g.isAnonymous /\ g.userId # NoUser
                    THEN Append(notifications, createNotification(g.userId, g.id, "Grievance Submitted"))
                    ELSE notifications
               /\ Respond("submit", r.actor, g.id, r.data.category, r.now, 200, <<g>>)
    /\ inflight' = [inflight EXCEPT ![s] = Idle]
    /\ UNCHANGED <<dashVars, recordVars, appVars, registerVars>>
    /\ UNCHANGED <<backend, users, clock, nreq>>

----------------------------------------------------------------------------
\* PATCH /api/grievances/:id/status

\* The role check; then resolvedAt is sampled and storage.updateGrievanceStatus called.
SetStatusBegin(s, actor, id, status) ==
    /\ CanAccept
    /\ FreeSlot(s)
    /\ nreq' = nreq + 1
    /\ IF ~IsStaffLevel(actor)
       THEN /\ Forbidden("setStatus", actor)
            /\ UNCHANGED inflight
       ELSE /\ inflight' = [inflight EXCEPT ![s] =
                 [op         |-> "setStatus",
                  actor      |-> actor,
                  id         |-> id,
                  status     |-> status,
                  now        |-> clock,
                  resolvedAt |-> IF status \in {"resolved", "closed"} THEN clock ELSE NullTime]]
            /\ UNCHANGED response
    /\ UNCHANGED <<dashVars, recordVars, appVars, registerVars>>
    /\ UNCHANGED <<backend, users, clock, grievances, files, notifications, prioritySetAt>>

\* The write, the owner's notification and the response.
SetStatusComplete(s) ==
    /\ inflight[s].op = "setStatus"
    /\ LET r == inflight[s]
           outcome == UpdateOutcome(r.id, r.status, Statuses)
           updatedAt == IF backend = "memory" THEN clock ELSE r.now
       IN CASE outcome = "row" ->
                 LET g == updateGrievanceStatus(grievances[r.id], r.status, r.resolvedAt, updatedAt)
                 IN /\ grievances' = [grievances EXCEPT ![r.id] = g]
                    /\ notifications' =
                         IF g.userId # NoUser
                         THEN Append(notifications, createNotification(g.userId, r.id, "Status Updated"))
                         ELSE notifications
                    /\ Respond("setStatus", r.actor, r.id, r.status, r.now, 200, <<g>>)
            [] outcome = "object" ->
                 /\ Respond("setStatus", r.actor, r.id, r.status, r.now, 200, <<>>)
                 /\ UNCHANGED <<grievances, notifications>>
            [] OTHER ->
                 /\ Respond("setStatus", r.actor, r.id, r.status, r.now, 500, <<>>)
                 /\ UNCHANGED <<grievances, notifications>>
    /\ inflight' = [inflight EXCEPT ![s] = Idle]
    /\ UNCHANGED <<dashVars, recordVars, appVars, registerVars>>
    /\ UNCHANGED <<backend, users, clock, nreq, files, prioritySetAt>>

----------------------------------------------------------------------------
\* PATCH /api/grievances/:id/priority

SetPriorityBegin(s, actor, id, priority) ==
    /\ CanAccept
    /\ FreeSlot(s)
    /\ nreq' = nreq + 1
    /\ IF ~IsAdministrator(actor)
       THEN /\ Forbidden("setPriority", actor)
            /\ UNCHANGED inflight
       ELSE /\ inflight' = [inflight EXCEPT ![s] =
                 [op          |-> "setPriority",
                  actor       |-> actor,
                  id          |-> id,
                  priority    |-> priority,
                  now         |-> clock,
                  slaDeadline |-> calculateSlaDeadline(priority, clock)]]
            /\ UNCHANGED response
    /\ UNCHANGED <<dashVars, recordVars, appVars, registerVars>>
    /\ UNCHANGED <<backend, users, clock, grievances, files, notifications, prioritySetAt>>

SetPriorityComplete(s) ==
    /\ inflight[s].op = "setPriority"
    /\ LET r == inflight[s]
           outcome == UpdateOutcome(r.id, r.priority, Priorities)
           updatedAt == IF backend = "memory" THEN clock ELSE r.now
       IN CASE outcome = "row" ->
                 LET g == updateGrievancePriority(grievances[r.id], r.priority, r.slaDeadline, updatedAt)
                 IN /\ grievances' = [grievances EXCEPT ![r.id] = g]
                    /\ prioritySetAt' = [prioritySetAt EXCEPT ![r.id] = r.now]
                    /\ notifications' =
                         IF g.userId # NoUser
                         THEN Append(notifications, createNotification(g.userId, r.id, "Priority Updated"))
                         ELSE notifications
                    /\ Respond("setPriority", r.actor, r.id, r.priority, r.now, 200, <<g>>)
            [] outcome = "object" ->
                 /\ Respond("setPriority", r.actor, r.id, r.priority, r.now, 200, <<>>)
                 /\ UNCHANGED <<grievances, notifications, prioritySetAt>>
            [] OTHER ->
                 /\ Respond("setPriority", r.actor, r.id, r.priority, r.now, 500, <<>>)
                 /\ UNCHANGED <<grievances, notifications, prioritySetAt>>
    /\ inflight' = [inflight EXCEPT ![s] = Idle]
    /\ UNCHANGED <<dashVars, recordVars, appVars, registerVars>>
    /\ UNCHANGED <<backend, users, clock, nreq, files>>

----------------------------------------------------------------------------
\* A storage call that rejects after the handler's first write.  The handlers
\* await each storage call on its own (no transaction is opened), so what was
\* written before the rejection stays, and the catch block answers 500.  Only
\* DatabaseStorage's calls can reject this way (the connection to the database
\* is lost); InMemoryStorage's run to completion.

\* POST /api/grievances: the grievance is inserted, `stored` file rows follow,
\* then the next createFile (stored < nfiles) or createNotification rejects.
SubmitRejected(s, stored) ==
    /\ backend = "database"
    /\ inflight[s].op = "submit"
    /\ LET r == inflight[s]
           g == createGrievance(r.data, clock)
       IN /\ ~InsertGrievanceThrows(r.data)
          /\ stored \in 0 .. r.nfiles
          /\ stored = r.nfiles => (~g.isAnonymous /\ g.userId # NoUser)
          /\ grievances' = Append(grievances, g)
          /\ prioritySetAt' = Append(prioritySetAt, r.now)
          /\ files' = files \o [k \in 1 .. stored |->
                                   createFile(g.id, IF r.data.isAnonymous THEN NoUser ELSE r.actor)]
          /\ Respond("submit", r.actor, NullTime, r.data.category, r.now, 500, <<>>)
    /\ inflight' = [inflight EXCEPT ![s] = Idle]
    /\ UNCHANGED <<dashVars, recordVars, appVars, registerVars>>
    /\ UNCHANGED <<backend, users, clock, nreq, notifications>>

\* PATCH /api/grievances/:id/status: the row is updated, createNotification rejects.
SetStatusRejected(s) ==
    /\ backend = "database"
    /\ inflight[s].op = "setStatus"
    /\ LET r == inflight[s]
       IN /\ UpdateOutcome(r.id, r.status, Statuses) = "row"
          /\ grievances[r.id].userId # NoUser
          /\ grievances' = [grievances EXCEPT ![r.id] =
                               updateGrievanceStatus(grievances[r.id], r.status, r.resolvedAt, r.now)]
          /\ Respond("setStatus", r.actor, r.id, r.status, r.now, 500, <<>>)
    /\ inflight' = [inflight EXCEPT ![s] = Idle]
    /\ UNCHANGED <<dashVars, recordVars, appVars, registerVars>>
    /\ UNCHANGED <<backend, users, clock, nreq, files, notifications, prioritySetAt>>

\* PATCH /api/grievances/:id/priority: the row is updated, createNotification rejects.
SetPriorityRejected(s) ==
    /\ backend = "database"
    /\ inflight[s].op = "setPriority"
    /\ LET r == inflight[s]
       IN /\ UpdateOutcome(r.id, r.priority, Priorities) = "row"
          /\ grievances[r.id].userId # NoUser
          /\ grievances' = [grievances EXCEPT ![r.id] =
                               updateGrievancePriority(grievances[r.id], r.priority, r.slaDeadline, r.now)]
          /\ prioritySetAt' = [prioritySetAt EXCEPT ![r.id] = r.now]
          /\ Respond("setPriority", r.actor, r.id, r.priority, r.now, 500, <<>>)
    /\ inflight' = [inflight EXCEPT ![s] = Idle]
    /\ UNCHANGED <<dashVars, recordVars, appVars, registerVars>>
    /\ UNCHANGED <<backend, users, clock, nreq, files, notifications>>

----------------------------------------------------------------------------
\* Reads.  Each answers from one snapshot of the table.

\* storage.getGrievance(id): "row", "object" (memory: an inherited non-grievance
\* object, truthy, with no userId and no isConfidential) or "undefined"
GetOutcome(id) ==
    IF id \in Ids THEN "row"
    ELSE IF backend = "memory" /\ id = ProtoKey THEN "object" ELSE "undefined"

\* canAccess of GET /api/grievances/:id
canAccess(userId, g) ==
    LET isOwner == g.userId = userId
        isStaff == IsStaffLevel(userId)
    IN isOwner \/ (isStaff /\ (~g.isConfidential \/ users[userId] = "administrator"))

\* GET /api/grievances/:id
GetGrievance(actor, id) ==
    /\ ~SyncBusy
    /\ LET outcome == GetOutcome(id)
       IN CASE outcome = "undefined" ->
                 Respond("getGrievance", actor, id, "", NullTime, 404, <<>>)
            [] outcome = "object" ->
                 \* isOwner is false, isConfidential is undefined: any staff-level user passes
                 IF IsStaffLevel(actor)
                 THEN Respond("getGrievance", actor, id, "", NullTime, 200, <<>>)
                 ELSE Respond("getGrievance", actor, id, "", NullTime, 403, <<>>)
            [] OTHER ->
                 IF canAccess(actor, grievances[id])
                 THEN Respond("getGrievance", actor, id, "", NullTime, 200, <<grievances[id]>>)
                 ELSE Respond("getGrievance", actor, id, "", NullTime, 403, <<>>)
    /\ UNCHANGED <<dashVars, recordVars, appVars, registerVars>>
    /\ UNCHANGED <<backend, users, clock, nreq, grievances, files, notifications,
                   inflight, prioritySetAt>>

\* storage.getAllGrievances: every row (the database orders by createdAt, newest first)
getAllGrievances ==
    IF backend = "memory" THEN grievances
    ELSE [k \in 1 .. Len(grievances) |-> grievances[Len(grievances) + 1 - k]]

\* GET /api/grievances/all
GetAllGrievances(actor) ==
    /\ ~SyncBusy
    /\ IF ~IsStaffLevel(actor)
       THEN Respond("getAll", actor, NullTime, "", NullTime, 403, <<>>)
       ELSE Respond("getAll", actor, NullTime, "", NullTime, 200, getAllGrievances)
    /\ UNCHANGED <<dashVars, recordVars, appVars, registerVars>>
    /\ UNCHANGED <<backend, users, clock, nreq, grievances, files, notifications,
                   inflight, prioritySetAt>>

\* storage.getGrievanceByTrackingId: the first row with the tracking id, or undefined
getGrievanceByTrackingId(trackingId) ==
    LET found == {i \in Ids : grievances[i].trackingId = trackingId}
    IN IF found = {} THEN <<>>
       ELSE <<grievances[CHOOSE i \in found : \A j \in found : i <= j]>>

\* GET /api/grievances/track/:trackingId (no requireAuth: `actor` is whoever asks,
\* the handler never looks at it)
TrackGrievance(actor, trackingId) ==
    /\ ~SyncBusy
    /\ LET found == getGrievanceByTrackingId(trackingId)
       IN IF found = <<>>
          THEN Respond("track", actor, NullTime, trackingId, NullTime, 404, <<>>)
          ELSE Respond("track", actor, NullTime, trackingId, NullTime, 200, found)
    /\ UNCHANGED <<dashVars, recordVars, appVars, registerVars>>
    /\ UNCHANGED <<backend, users, clock, nreq, grievances, files, notifications,
                   inflight, prioritySetAt>>

\* storage.getUserGrievances(userId)
getUserGrievances(userId) ==
    SelectSeq(getAllGrievances, LAMBDA g : g.userId = userId)

\* GET /api/grievances/my
GetMyGrievances(actor) ==
    /\ ~SyncBusy
    /\ Respond("getMy", actor, NullTime, "", NullTime, 200, getUserGrievances(actor))
    /\ UNCHANGED <<dashVars, recordVars, appVars, registerVars>>
    /\ UNCHANGED <<backend, users, clock, nreq, grievances, files, notifications,
                   inflight, prioritySetAt>>

----------------------------------------------------------------------------
\* GET /api/dashboard/stats

\* The rows getDashboardStats counts.  DatabaseStorage narrows the query to the
\* caller's rows when the role is "student"; InMemoryStorage takes its
\* parameters and never looks at them.
statsRows(userId, role) ==
    IF backend = "database" /\ role = "student"
    THEN SelectSeq(grievances, LAMBDA g : g.userId = userId)
    ELSE grievances

\* Variant of isPending that tests for "closed" only
isPending_unlessClosed(g) == g.status # "closed"

isPending(g) == g.status \notin {"resolved", "closed"}

\* Variant of isOverdue that counts a grievance as overdue at its deadline already
isOverdue_atDeadline(g, now) ==
    g.slaDeadline \notin {NullTime, InvalidDate} /\ g.slaDeadline <= now /\ isPending(g)

\* g.slaDeadline && new Date(g.slaDeadline) < now && !["resolved", "closed"].includes(g.status)
isOverdue(g, now) ==
    g.slaDeadline \notin {NullTime, InvalidDate} /\ g.slaDeadline < now /\ isPending(g)

getDashboardStats(userId, role, now) ==
    LET allGrievances == statsRows(userId, role)
    IN [total    |-> Len(allGrievances),
        pending  |-> Len(SelectSeq(allGrievances, isPending)),
        resolved |-> Len(SelectSeq(allGrievances, LAMBDA g : g.status = "resolved" \/ g.status = "closed")),
        overdue  |-> Len(SelectSeq(allGrievances, LAMBDA g : isOverdue(g, now)))]

\* The handler: the caller's row is read for its role (undefined when there is
\* no row), then the storage counts with `now` sampled inside the call.
GetDashboardStats(actor) ==
    /\ ~SyncBusy
    /\ Respond("stats", actor, NullTime, "", clock, 200,
               <<getDashboardStats(actor, RoleOf(actor), clock)>>)
    /\ UNCHANGED <<dashVars, recordVars, appVars, registerVars>>
    /\ UNCHANGED <<backend, users, clock, nreq, grievances, files, notifications,
                   inflight, prioritySetAt>>

----------------------------------------------------------------------------
\* GET /api/analytics

\* Math.round of the quotient num / den (den > 0, num >= 0): halves go up
MathRound(num, den) == (2 * num + den) \div (2 * den)

RECURSIVE SumSeq(_)
SumSeq(seq) == IF seq = <<>> THEN 0 ELSE Head(seq) + SumSeq(Tail(seq))

\* The calendar of JS Date objects, local time: months are 0 .. 11.  The clock
\* reads 0 at midnight of EpochDate.
MsPerDay == 24 * MsPerHour

EpochDate == [year |-> 2025, month |-> 2, day |-> 30]

IsLeapYear(y) == (y % 4 = 0 /\ y % 100 # 0) \/ y % 400 = 0

DaysInMonth(y, m) ==
    CASE m = 1               -> IF IsLeapYear(y) THEN 29 ELSE 28
      [] m \in {3, 5, 8, 10} -> 30
      [] OTHER               -> 31

\* What a Date does with fields out of range: the month carries into the year,
\* a day past the end of the month carries into the following month
RECURSIVE NormaliseDate(_)
NormaliseDate(date) ==
    IF date.month < 0
    THEN NormaliseDate([date EXCEPT !.year = @ - 1, !.month = @ + 12])
    ELSE IF date.month > 11
    THEN NormaliseDate([date EXCEPT !.year = @ + 1, !.month = @ - 12])
    ELSE IF date.day > DaysInMonth(date.year, date.month)
    THEN NormaliseDate([date EXCEPT !.month = @ + 1,
                                    !.day = @ - DaysInMonth(date.year, date.month)])
    ELSE date

\* new Date(ms)
DateOf(ms) == NormaliseDate([EpochDate EXCEPT !.day = @ + (ms \div MsPerDay)])

\* date.setMonth(m): the day of the month is kept, then the date is normalised
setMonth(date, m) == NormaliseDate([date EXCEPT !.month = m])

\* gDate.getMonth() === date.getMonth() && gDate.getFullYear() === date.getFullYear()
SameMonth(ms, date) ==
    DateOf(ms).month = date.month /\ DateOf(ms).year = date.year

\* Math.round(sum of hours / count), 0 when nothing is resolved
avgResolutionTime(rows) ==
    LET resolvedGrievances == SelectSeq(rows, LAMBDA g : g.resolvedAt # NullTime)
        durations == [k \in 1 .. Len(resolvedGrievances) |->
                         resolvedGrievances[k].resolvedAt - resolvedGrievances[k].createdAt]
    IN IF Len(resolvedGrievances) > 0
       THEN MathRound(SumSeq(durations), MsPerHour * Len(resolvedGrievances))
       ELSE 0

\* Math.round((slaCompliant / grievancesWithSLA.length) * 100), 0 when there is none
slaCompliance(rows) ==
    LET grievancesWithSLA ==
            SelectSeq(rows, LAMBDA g : g.slaDeadline # NullTime /\ g.resolvedAt # NullTime)
        slaCompliant == SelectSeq(grievancesWithSLA, LAMBDA g : g.resolvedAt <= g.slaDeadline)
    IN IF Len(grievancesWithSLA) > 0
       THEN MathRound(100 * Len(slaCompliant), Len(grievancesWithSLA))
       ELSE 0

\* for (let i = 5; i >= 0; i--) { date = new Date(); date.setMonth(date.getMonth() - i); ... }
monthlyTrends(rows, now) ==
    [k \in 1 .. 6 |->
        LET date == setMonth(DateOf(now), DateOf(now).month - (6 - k))
        IN [month     |-> date.month,
            submitted |-> Len(SelectSeq(rows, LAMBDA g : SameMonth(g.createdAt, date))),
            resolved  |-> Len(SelectSeq(rows, LAMBDA g :
                              g.resolvedAt # NullTime /\ SameMonth(g.resolvedAt, date)))]]

\* storage.getAnalytics(): DatabaseStorage computes the figures (the three
\* breakdowns by category, priority and status are left out here);
\* InMemoryStorage returns the total and nothing else.
getAnalytics(now) ==
    IF backend = "memory"
    THEN [totalGrievances |-> Len(grievances)]
    ELSE [totalGrievances   |-> Len(grievances),
          avgResolutionTime |-> avgResolutionTime(grievances),
          slaCompliance     |-> slaCompliance(grievances),
          monthlyTrends     |-> monthlyTrends(grievances, now)]

GetAnalytics(actor) ==
    /\ ~SyncBusy
    /\ IF ~IsAdministrator(actor)
       THEN Forbidden("analytics", actor)
       ELSE Respond("analytics", actor, NullTime, "", clock, 200, <<getAnalytics(clock)>>)
    /\ UNCHANGED <<dashVars, recordVars, appVars, registerVars>>
    /\ UNCHANGED <<backend, users, clock, nreq, grievances, files, notifications,
                   inflight, prioritySetAt>>

----------------------------------------------------------------------------
\* Admin dashboard (src/pages/Dashboard.tsx, AdminDashboard): a browser client
\* that keeps each grievance, its comments included, in one Firestore document.
\* One document is followed; a comment is the number under which it was composed.

\* The admin sessions open at the same time
Admins == {"adminA", "adminB"}

\* No document / no grievance in the React state (selectedGrievance = null)
NoDoc == [exists |-> FALSE, status |-> "", comments |-> <<>>]

\* No updateDoc awaiting
NoWrite == [active |-> FALSE, status |-> "", comments |-> <<>>, comment |-> 0]

\* SubmitGrievance.tsx: addDoc(collection(db, 'grievances'), {..., comments: []})
addDoc ==
    /\ fsDoc = NoDoc
    /\ fsDoc' = [exists |-> TRUE, status |-> "submitted", comments |-> <<>>]
    /\ UNCHANGED <<dash, ncomments, writtenComments>>
    /\ UNCHANGED <<serverVars, recordVars, appVars, registerVars>>

\* The onSnapshot listener: setGrievances(grievanceList); selectedGrievance is not touched
onSnapshot(a) ==
    /\ dash[a].listed # fsDoc
    /\ dash' = [dash EXCEPT ![a].listed = fsDoc]
    /\ UNCHANGED <<fsDoc, ncomments, writtenComments>>
    /\ UNCHANGED <<serverVars, recordVars, appVars, registerVars>>

\* Click on a card: setSelectedGrievance(grievance), a copy of the listed one
setSelectedGrievance(a) ==
    /\ dash[a].listed.exists
    /\ dash[a].selected # dash[a].listed
    /\ dash' = [dash EXCEPT ![a].selected = dash[a].listed]
    /\ UNCHANGED <<fsDoc, ncomments, writtenComments>>
    /\ UNCHANGED <<serverVars, recordVars, appVars, registerVars>>

\* handleStatusChange up to `await updateDoc`: the comment list sent is the one of
\* the listed grievance plus the status comment
handleStatusChange(a, newStatus) ==
    /\ dash[a].selected.exists
    /\ dash[a].listed.exists
    /\ ~dash[a].pending.active
    /\ ncomments < MaxComments
    /\ ncomments' = ncomments + 1
    /\ dash' = [dash EXCEPT ![a].pending =
                  [active   |-> TRUE,
                   status   |-> newStatus,
                   comments |-> Append(dash[a].listed.comments, ncomments + 1),
                   comment  |-> ncomments + 1]]
    /\ UNCHANGED <<fsDoc, writtenComments>>
    /\ UNCHANGED <<serverVars, recordVars, appVars, registerVars>>

\* handleAddComment up to `await updateDoc`: the comment list sent is the one of
\* selectedGrievance plus the new comment
handleAddComment(a) ==
    /\ dash[a].selected.exists
    /\ ~dash[a].pending.active
    /\ ncomments < MaxComments
    /\ ncomments' = ncomments + 1
    /\ dash' = [dash EXCEPT ![a].pending =
                  [active   |-> TRUE,
                   status   |-> "",
                   comments |-> Append(dash[a].selected.comments, ncomments + 1),
                   comment  |-> ncomments + 1]]
    /\ UNCHANGED <<fsDoc, writtenComments>>
    /\ UNCHANGED <<serverVars, recordVars, appVars, registerVars>>

\* updateDoc resolves: the fields given replace the document's fields
updateDoc(a) ==
    /\ dash[a].pending.active
    /\ LET w == dash[a].pending
       IN /\ fsDoc' = [fsDoc EXCEPT !.comments = w.comments,
                                    !.status = IF w.status = "" THEN @ ELSE w.status]
          /\ writtenComments' = writtenComments \cup {w.comment}
    /\ dash' = [dash EXCEPT ![a].pending = NoWrite]
    /\ UNCHANGED ncomments
    /\ UNCHANGED <<serverVars, recordVars, appVars, registerVars>>

----------------------------------------------------------------------------
\* The clock

Tick(d) ==
    /\ clock + d <= MaxClock
    /\ clock' = clock + d
    /\ UNCHANGED <<dashVars, recordVars, appVars, registerVars>>
    /\ UNCHANGED <<backend, users, nreq, grievances, files, notifications, inflight,
                   response, prioritySetAt>>

\* Hours and days pass between requests
Elapse(d) ==
    /\ clock + d <= MaxHours * MsPerHour
    /\ clock' = clock + d
    /\ UNCHANGED <<dashVars, recordVars, appVars, registerVars>>
    /\ UNCHANGED <<backend, users, nreq, grievances, files, notifications, inflight,
                   response, prioritySetAt>>

----------------------------------------------------------------------------
\* Comments, assignments and the read flag of notifications

\* createComment / createAssignment: the row the storage keeps (the id is the
\* position in the table, createdAt carries no behaviour here)
createComment(grievanceId, userId) ==
    [grievanceId |-> grievanceId, userId |-> userId, isInternal |-> FALSE]

\* Variant of createAssignment in which the new assignment replaces the earlier
\* ones of the same grievance
createAssignment_replace(table, grievanceId, assignedTo, assignedBy) ==
    Append(SelectSeq(table, LAMBDA a : a.grievanceId # grievanceId),
           [grievanceId |-> grievanceId, assignedTo |-> assignedTo,
            assignedBy |-> assignedBy])

createAssignment(table, grievanceId, assignedTo, assignedBy) ==
    Append(table, [grievanceId |-> grievanceId, assignedTo |-> assignedTo,
                   assignedBy |-> assignedBy])

\* The foreign keys of the comments and assignments tables (database only)
InsertCommentThrows(c) ==
    /\ backend = "database"
    /\ c.grievanceId \notin Ids \/ ~UserExists(c.userId)

InsertAssignmentThrows(grievanceId, assignedTo, assignedBy) ==
    /\ backend = "database"
    /\ grievanceId \notin Ids \/ ~UserExists(assignedTo) \/ ~UserExists(assignedBy)

\* POST /api/grievances/:id/comments: any authenticated caller, no lookup of the grievance
PostComment(actor, id) ==
    /\ CanAccept
    /\ Len(comments) < MaxRecords
    /\ nreq' = nreq + 1
    /\ LET c == createComment(id, actor)
       IN IF InsertCommentThrows(c)
          THEN /\ Respond("addComment", actor, id, "", NullTime, 500, <<>>)
               /\ UNCHANGED comments
          ELSE /\ comments' = Append(comments, c)
               /\ Respond("addComment", actor, id, "", NullTime, 200, <<c>>)
    /\ UNCHANGED <<dashVars, assignments, appVars, registerVars>>
    /\ UNCHANGED <<backend, users, clock, grievances, files, notifications,
                   inflight, prioritySetAt>>

\* storage.createAssignment(data): no route calls it; a rejected insert changes nothing
StoreAssignment(grievanceId, assignedTo, assignedBy) ==
    /\ ~SyncBusy
    /\ Len(assignments) < MaxRecords
    /\ assignments' = IF InsertAssignmentThrows(grievanceId, assignedTo, assignedBy)
                      THEN assignments
                      ELSE createAssignment(assignments, grievanceId, assignedTo, assignedBy)
    /\ UNCHANGED <<dashVars, comments, appVars, registerVars>>
    /\ UNCHANGED serverVars

\* storage.markNotificationAsRead(id) on a stored notification
markNotificationAsRead(n) ==
    /\ ~SyncBusy
    /\ n \in 1 .. Len(notifications)
    /\ ~notifications[n].isRead
    /\ notifications' = [notifications EXCEPT ![n].isRead = TRUE]
    /\ UNCHANGED <<dashVars, recordVars, appVars, registerVars>>
    /\ UNCHANGED <<backend, users, clock, nreq, grievances, files, inflight,
                   response, prioritySetAt>>

----------------------------------------------------------------------------
\* App.tsx: the auth listener and ProtectedRoute

\* The accounts of Firebase Auth; "newC" is registered and has no users document yet
AuthUsers == {"adminA", "studentB", "newC"}

\* onAuthStateChanged(auth, async (user) => ...): the listener is called with the
\* user now signed in, or null.  The first call reports the persisted session.
\* With a user the callback suspends at await getDoc.
AuthStateChanged(user) ==
    /\ nauth < MaxAuthEvents
    /\ nauth = 0 \/ user # authUser
    /\ nauth' = nauth + 1
    /\ authUser' = user
    /\ IF user = NoUser
       THEN /\ currentUser' = NullUser
            /\ appLoading' = FALSE
            /\ UNCHANGED getDocPending
       ELSE /\ getDocPending' = getDocPending \cup {[n |-> nauth + 1, uid |-> user]}
            /\ UNCHANGED <<currentUser, appLoading>>
    /\ UNCHANGED <<serverVars, dashVars, recordVars, registerVars, userDocs>>

\* getDoc resolved: setCurrentUser only if the document exists; setLoading(false)
GetDocResolves(p) ==
    /\ p \in getDocPending
    /\ getDocPending' = getDocPending \ {p}
    /\ currentUser' = IF p.uid \in DOMAIN userDocs
                      THEN [uid |-> p.uid, role |-> userDocs[p.uid]]
                      ELSE currentUser
    /\ appLoading' = FALSE
    /\ UNCHANGED <<serverVars, dashVars, recordVars, registerVars, userDocs, authUser, nauth>>

\* getDoc rejected: the catch logs; setLoading(false)
GetDocFails(p) ==
    /\ p \in getDocPending
    /\ getDocPending' = getDocPending \ {p}
    /\ appLoading' = FALSE
    /\ UNCHANGED <<serverVars, dashVars, recordVars, registerVars, userDocs, authUser, nauth,
                   currentUser>>

\* Register's setDoc(doc(db, 'users', uid), userData) lands for an account without document
SetUserDoc(uid, role) ==
    /\ uid \notin DOMAIN userDocs
    /\ userDocs' = [u \in DOMAIN userDocs \cup {uid} |->
                       IF u = uid THEN role ELSE userDocs[u]]
    /\ UNCHANGED <<serverVars, dashVars, recordVars, registerVars, authUser, nauth,
                   currentUser, appLoading, getDocPending>>

\* What ProtectedRoute returns
ProtectedRoute(adminOnly) ==
    IF appLoading THEN "CircularProgress"
    ELSE IF currentUser = NullUser THEN "/login"
    ELSE IF adminOnly /\ currentUser.role # "admin" THEN "/dashboard"
    ELSE "children"

----------------------------------------------------------------------------
\* Register: handleSubmit, its 15-second timer and the two Firebase calls it awaits.
\* attempt[n] is where the n-th valid submission stands: "createUser" and
\* "setDoc" are the two awaits, "succeeded" and "failed" the two ends.

Running == {"createUser", "setDoc"}

\* The submit button (disabled while loading): validation, setLoading(true),
\* setTimeout, the two initialisation tests and the call of createUserWithEmailAndPassword
handleSubmit(valid, initialized) ==
    /\ ~registerLoading
    /\ nattempts < MaxAttempts
    /\ nattempts' = nattempts + 1
    /\ IF ~valid
       THEN /\ registerError' = "Passwords do not match"
            /\ UNCHANGED <<registerLoading, attempt, timers>>
       ELSE /\ timers' = timers \cup {Len(attempt) + 1}
            /\ IF initialized
               THEN /\ attempt' = Append(attempt, "createUser")
                    /\ registerError' = ""
                    /\ registerLoading' = TRUE
               ELSE /\ attempt' = Append(attempt, "failed")
                    /\ registerError' = ErrorOf("not initialized")
                    /\ registerLoading' = FALSE
    /\ UNCHANGED <<serverVars, dashVars, recordVars, appVars>>

\* createUserWithEmailAndPassword resolved: userData is built and setDoc is called
CreateUserResolves(n) ==
    /\ n \in 1 .. Len(attempt)
    /\ attempt[n] = "createUser"
    /\ attempt' = [attempt EXCEPT ![n] = "setDoc"]
    /\ UNCHANGED <<registerLoading, registerError, timers, nattempts>>
    /\ UNCHANGED <<serverVars, dashVars, recordVars, appVars>>

\* Either await rejected: catch, then finally; the timer is left armed
AwaitRejects(n, code) ==
    /\ n \in 1 .. Len(attempt)
    /\ attempt[n] \in Running
    /\ attempt' = [attempt EXCEPT ![n] = "failed"]
    /\ registerError' = ErrorOf(code)
    /\ registerLoading' = FALSE
    /\ UNCHANGED <<timers, nattempts>>
    /\ UNCHANGED <<serverVars, dashVars, recordVars, appVars>>

\* setDoc resolved: clearTimeout, navigate, then finally
SetDocResolves(n) ==
    /\ n \in 1 .. Len(attempt)
    /\ attempt[n] = "setDoc"
    /\ attempt' = [attempt EXCEPT ![n] = "succeeded"]
    /\ timers' = timers \ {n}
    /\ registerLoading' = FALSE
    /\ UNCHANGED <<registerError, nattempts>>
    /\ UNCHANGED <<serverVars, dashVars, recordVars, appVars>>

\* The callback of setTimeout(..., 15000); timers of equal delay fire in the order set
TimeoutFires(n) ==
    /\ n \in timers
    /\ \A m \in timers : m >= n
    /\ timers' = timers \ {n}
    /\ registerLoading' = FALSE
    /\ registerError' = TimedOut
    /\ UNCHANGED <<attempt, nattempts>>
    /\ UNCHANGED <<serverVars, dashVars, recordVars, appVars>>

\* handleChange: typing in a field (disabled while loading) clears the error
handleChange ==
    /\ ~registerLoading
    /\ registerError # ""
    /\ registerError' = ""
    /\ UNCHANGED <<registerLoading, attempt, timers, nattempts>>
    /\ UNCHANGED <<serverVars, dashVars, recordVars, appVars>>

----------------------------------------------------------------------------
\* Initial state: empty tables, either backend

Init ==
    /\ backend \in {"memory", "database"}
    /\ users = InitialUsers
    /\ clock = 0
    /\ nreq = 0
    /\ grievances = <<>>
    /\ files = <<>>
    /\ notifications = <<>>
    /\ inflight = [s \in 1 .. MaxInFlight |-> Idle]
    /\ response = NoResponse
    /\ prioritySetAt = <<>>
    /\ fsDoc = NoDoc
    /\ dash = [a \in Admins |-> [listed |-> NoDoc, selected |-> NoDoc, pending |-> NoWrite]]
    /\ ncomments = 0
    /\ writtenComments = {}
    /\ comments = <<>>
    /\ assignments = <<>>
    /\ authUser = NoUser
    /\ userDocs = InitialUserDocs
    /\ currentUser = NullUser
    /\ appLoading = TRUE
    /\ getDocPending = {}
    /\ nauth = 0
    /\ registerLoading = FALSE
    /\ registerError = ""
    /\ attempt = <<>>
    /\ timers = {}
    /\ nattempts = 0

Complete ==
    \E s \in 1 .. MaxInFlight :
        SubmitComplete(s) \/ SetStatusComplete(s) \/ SetPriorityComplete(s)

Advance == Tick(1)

----------------------------------------------------------------------------
\* Spec: the three lifecycle operations, concurrent, on either backend

Submit ==
    \E s \in 1 .. MaxInFlight, category \in {"urgent", "administrative"},
       isAnonymous \in BOOLEAN, tid \in TrackingIds :
        SubmitBegin(s, "stu1", category, isAnonymous, FALSE, 0, tid)

SetStatus ==
    \E s \in 1 .. MaxInFlight, actor \in {"stu1", "staff1"}, id \in 1 .. (MaxGrievances + 1),
       status \in {"in_progress", "resolved", "closed"} :
        SetStatusBegin(s, actor, id, status)

SetPriority ==
    \E s \in 1 .. MaxInFlight, actor \in {"staff1", "admin1"}, id \in 1 .. (MaxGrievances + 1),
       priority \in {"low", "critical", "bogus"} :
        SetPriorityBegin(s, actor, id, priority)

Next == Submit \/ SetStatus \/ SetPriority \/ Complete \/ Advance

Spec == Init /\ [][Next]_vars

----------------------------------------------------------------------------
\* SpecSla: the deadline bookkeeping; one student submits urgent grievances, a
\* staff member moves the first one along, an administrator re-prioritises a
\* known or an unknown id with a valid or an invalid priority

SubmitUrgent ==
    \E s \in 1 .. MaxInFlight :
        SubmitBegin(s, "stu1", "urgent", FALSE, FALSE, 0, "GRV-AAAA-AAAA")

SetStatusOfFirst ==
    \E s \in 1 .. MaxInFlight, status \in {"in_progress", "resolved"} :
        SetStatusBegin(s, "staff1", 1, status)

SetPriorityByAdmin ==
    \E s \in 1 .. MaxInFlight, id \in {1, MaxGrievances + 1},
       priority \in {"low", "critical", "bogus"} :
        SetPriorityBegin(s, "admin1", id, priority)

NextSla == SubmitUrgent \/ SetStatusOfFirst \/ SetPriorityByAdmin \/ Complete \/ Advance

SpecSla == Init /\ [][NextSla]_vars

----------------------------------------------------------------------------
\* SpecSubmit: submissions alone, over every category (and two values outside
\* the enumeration), with and without files

SubmitAny ==
    \E s \in 1 .. MaxInFlight, category \in Categories \cup {"bogus", InheritedKey},
       isAnonymous \in BOOLEAN, nfiles \in 0 .. MaxFiles, tid \in TrackingIds :
        SubmitBegin(s, "stu1", category, isAnonymous, FALSE, nfiles, tid)

CompleteSubmit == \E s \in 1 .. MaxInFlight : SubmitComplete(s)

NextSubmit == SubmitAny \/ CompleteSubmit \/ Advance

SpecSubmit == Init /\ [][NextSubmit]_vars

----------------------------------------------------------------------------
\* SpecAuth: status and priority changes attempted by every kind of caller

SubmitOwned ==
    \E s \in 1 .. MaxInFlight :
        SubmitBegin(s, "stu1", "urgent", FALSE, FALSE, 0, "GRV-AAAA-AAAA")

SetStatusByAnyone ==
    \E s \in 1 .. MaxInFlight, actor \in Callers, id \in {1, MaxGrievances + 1},
       status \in {"resolved"} :
        SetStatusBegin(s, actor, id, status)

SetPriorityByAnyone ==
    \E s \in 1 .. MaxInFlight, actor \in Callers, id \in {1, MaxGrievances + 1},
       priority \in {"low"} :
        SetPriorityBegin(s, actor, id, priority)

NextAuth == SubmitOwned \/ SetStatusByAnyone \/ SetPriorityByAnyone \/ Complete \/ Advance

SpecAuth == Init /\ [][NextAuth]_vars

----------------------------------------------------------------------------
\* SpecRead: the read routes, asked by every kind of caller, over owned,
\* anonymous and confidential grievances

SubmitForRead ==
    \E s \in 1 .. MaxInFlight, isAnonymous \in BOOLEAN, isConfidential \in BOOLEAN,
       tid \in TrackingIds :
        SubmitBegin(s, "stu1", "academic", isAnonymous, isConfidential, 0, tid)

SetStatusForRead ==
    \E s \in 1 .. MaxInFlight, id \in 1 .. MaxGrievances :
        SetStatusBegin(s, "staff1", id, "resolved")

Read ==
    \/ \E actor \in Callers, id \in RequestIds : GetGrievance(actor, id)
    \/ \E actor \in Callers : GetAllGrievances(actor)
    \/ \E actor \in Callers, tid \in TrackingIds : TrackGrievance(actor, tid)
    \/ \E actor \in Callers : GetMyGrievances(actor)

CompleteForRead ==
    \E s \in 1 .. MaxInFlight : SubmitComplete(s) \/ SetStatusComplete(s)

NextRead == SubmitForRead \/ SetStatusForRead \/ CompleteForRead \/ Read

SpecRead == Init /\ [][NextRead]_vars

----------------------------------------------------------------------------
\* SpecNotify: the notifications; owned and anonymous grievances are submitted,
\* a staff member resolves and an administrator re-prioritises any of them (or
\* an id that matches none).  Ids are uuids the storage draws: a request can
\* name a stored grievance or an id no grievance will ever have.

SubmitOwnedOrAnonymous ==
    \E s \in 1 .. MaxInFlight, isAnonymous \in BOOLEAN :
        SubmitBegin(s, "stu1", "urgent", isAnonymous, FALSE, 0, "GRV-AAAA-AAAA")

SetStatusOfAny ==
    \E s \in 1 .. MaxInFlight, id \in Ids \cup {MaxGrievances + 1} :
        SetStatusBegin(s, "staff1", id, "resolved")

SetPriorityOfAny ==
    \E s \in 1 .. MaxInFlight, id \in Ids \cup {MaxGrievances + 1} :
        SetPriorityBegin(s, "admin1", id, "low")

NextNotify == SubmitOwnedOrAnonymous \/ SetStatusOfAny \/ SetPriorityOfAny \/ Complete \/ Advance

SpecNotify == Init /\ [][NextNotify]_vars

----------------------------------------------------------------------------
\* SpecComments: the admin dashboard; two admin sessions comment on and change
\* the status of one grievance document

AddComment == \E a \in Admins : handleAddComment(a)

StatusChange ==
    \E a \in Admins, newStatus \in {"in_progress", "resolved"} : handleStatusChange(a, newStatus)

Snapshot == \E a \in Admins : onSnapshot(a)

Select == \E a \in Admins : setSelectedGrievance(a)

WriteLands == \E a \in Admins : updateDoc(a)

NextComments == addDoc \/ Snapshot \/ Select \/ AddComment \/ StatusChange \/ WriteLands

SpecComments == Init /\ [][NextComments]_vars

----------------------------------------------------------------------------
\* SpecFault: the lifecycle operations when a storage call may reject part-way

SubmitWithFiles ==
    \E s \in 1 .. MaxInFlight, isAnonymous \in BOOLEAN, nfiles \in 0 .. MaxFiles :
        SubmitBegin(s, "stu1", "urgent", isAnonymous, FALSE, nfiles, "GRV-AAAA-AAAA")

SetStatusOfStored ==
    \E s \in 1 .. MaxInFlight, id \in Ids \cup {MaxGrievances + 1} :
        SetStatusBegin(s, "staff1", id, "resolved")

SetPriorityOfStored ==
    \E s \in 1 .. MaxInFlight, id \in Ids \cup {MaxGrievances + 1} :
        SetPriorityBegin(s, "admin1", id, "low")

StorageRejects ==
    \E s \in 1 .. MaxInFlight :
        \/ \E stored \in 0 .. MaxFiles : SubmitRejected(s, stored)
        \/ SetStatusRejected(s)
        \/ SetPriorityRejected(s)

NextFault ==
    SubmitWithFiles \/ SetStatusOfStored \/ SetPriorityOfStored \/ Complete \/ StorageRejects

SpecFault == Init /\ [][NextFault]_vars

----------------------------------------------------------------------------
\* SpecStats: the dashboard counters; two students submit, a staff member moves
\* grievances along, days pass, and students, staff and a subject with no user
\* row ask for their counters

SubmitByStudents ==
    \E s \in 1 .. MaxInFlight, actor \in {"stu1", "stu2"} :
        SubmitBegin(s, actor, "urgent", FALSE, FALSE, 0, "GRV-AAAA-AAAA")

SetStatusForStats ==
    \E s \in 1 .. MaxInFlight, id \in Ids, status \in {"in_progress", "resolved", "closed"} :
        SetStatusBegin(s, "staff1", id, status)

CompleteForStats ==
    \E s \in 1 .. MaxInFlight : SubmitComplete(s) \/ SetStatusComplete(s)

DayPasses == Elapse(24 * MsPerHour)

Stats == \E actor \in {"stu1", "stu2", "staff1", GhostUser} : GetDashboardStats(actor)

NextStats == SubmitByStudents \/ SetStatusForStats \/ CompleteForStats \/ DayPasses \/ Stats

SpecStats == Init /\ [][NextStats]_vars

----------------------------------------------------------------------------
\* SpecAnalytics: the analytics figures; grievances are submitted and resolved
\* half a day (13 h 30) or days apart around the end of a month, and an administrator (or a
\* staff member, who is refused) asks for the figures

SubmitForAnalytics ==
    \E s \in 1 .. MaxInFlight :
        SubmitBegin(s, "stu1", "urgent", FALSE, FALSE, 0, "GRV-AAAA-AAAA")

ResolveForAnalytics ==
    \E s \in 1 .. MaxInFlight, id \in Ids :
        SetStatusBegin(s, "staff1", id, "resolved")

TimePasses == \E d \in {27 * (MsPerHour \div 2), 24 * MsPerHour} : Elapse(d)

Analytics == \E actor \in {"admin1", "staff1"} : GetAnalytics(actor)

NextAnalytics ==
    SubmitForAnalytics \/ ResolveForAnalytics \/ CompleteForStats \/ TimePasses \/ Analytics

SpecAnalytics == Init /\ [][NextAnalytics]_vars

----------------------------------------------------------------------------
\* SpecDeadline: the deadline computation over every priority it can be given:
\* the ones submit derives from a category and the ones an administrator sends,
\* values outside the enumeration included

SubmitAnyCategory ==
    \E s \in 1 .. MaxInFlight, category \in Categories \cup {"bogus", InheritedKey} :
        SubmitBegin(s, "stu1", category, FALSE, FALSE, 0, "GRV-AAAA-AAAA")

SetAnyPriority ==
    \E s \in 1 .. MaxInFlight, id \in Ids \cup {MaxGrievances + 1},
       priority \in Priorities \cup {"bogus", InheritedKey} :
        SetPriorityBegin(s, "admin1", id, priority)

CompleteDeadline ==
    \E s \in 1 .. MaxInFlight : SubmitComplete(s) \/ SetPriorityComplete(s)

NextDeadline == SubmitAnyCategory \/ SetAnyPriority \/ CompleteDeadline \/ Advance

SpecDeadline == Init /\ [][NextDeadline]_vars

----------------------------------------------------------------------------
\* SpecRecords: every operation that writes a table, on either backend

SubmitWithFile ==
    \E s \in 1 .. MaxInFlight, nfiles \in 0 .. MaxFiles :
        SubmitBegin(s, "stu1", "urgent", FALSE, FALSE, nfiles, "GRV-AAAA-AAAA")

ResolveAny ==
    \E s \in 1 .. MaxInFlight, id \in Ids :
        SetStatusBegin(s, "admin1", id, "resolved")

Comment ==
    \E id \in Ids \cup {MaxGrievances + 1} : PostComment("stu1", id)

Assign ==
    \E id \in Ids \cap {1}, assignedTo \in {"staff1", "fac1"} :
        StoreAssignment(id, assignedTo, "admin1")

NextRecords ==
    \/ SubmitWithFile
    \/ ResolveAny
    \/ CompleteForRead
    \/ Comment
    \/ Assign
    \/ markNotificationAsRead(1)

SpecRecords == Init /\ [][NextRecords]_vars

----------------------------------------------------------------------------
\* SpecStatus: status changes with any value in the body, on stored and unknown ids

SetAnyStatus ==
    \E s \in 1 .. MaxInFlight, id \in Ids \cup {MaxGrievances + 1},
       status \in {"submitted", "in_progress", "resolved", "closed", "bogus"} :
        SetStatusBegin(s, "admin1", id, status)

NextStatus == SubmitUrgent \/ SetAnyStatus \/ CompleteForRead \/ Advance

SpecStatus == Init /\ [][NextStatus]_vars

----------------------------------------------------------------------------
\* SpecApp: sign-ins and sign-outs reported to the auth listener of App

AuthEvent == \E user \in AuthUsers \cup {NoUser} : AuthStateChanged(user)

GetDocReturns == \E p \in getDocPending : GetDocResolves(p) \/ GetDocFails(p)

NextApp == AuthEvent \/ GetDocReturns \/ SetUserDoc("newC", "student")

SpecApp == Init /\ [][NextApp]_vars

----------------------------------------------------------------------------
\* SpecRegister: submissions of the registration form and what follows them.
\* FairSpecRegister: a timer that is armed fires (setTimeout is served by the
\* event loop whatever the network does); the Firebase calls may stay pending.

SubmitForm == \E valid \in BOOLEAN, initialized \in BOOLEAN : handleSubmit(valid, initialized)

FirebaseAnswers ==
    \E n \in 1 .. MaxAttempts :
        \/ CreateUserResolves(n)
        \/ SetDocResolves(n)
        \/ \E code \in {"auth/email-already-in-use", "permission-denied"} : AwaitRejects(n, code)

Timeout == \E n \in 1 .. MaxAttempts : TimeoutFires(n)

NextRegister == SubmitForm \/ FirebaseAnswers \/ Timeout \/ handleChange

SpecRegister == Init /\ [][NextRegister]_vars

FairSpecRegister == SpecRegister /\ WF_vars(Timeout)

----------------------------------------------------------------------------
\* What the specification document says (spec.md 4.1, 4.2), for the properties

\* 4.2: offsets in hours critical=24, high=48, medium=72, low=120, otherwise 72
OffsetMs(priority) ==
    IF priority = "critical" THEN 24 * MsPerHour
    ELSE IF priority = "high" THEN 48 * MsPerHour
    ELSE IF priority = "low" THEN 120 * MsPerHour
    ELSE 72 * MsPerHour

\* 4.1: urgent->critical, academic->high, infrastructure->medium,
\* administrative->low, otherwise medium
resolvePriority(category) ==
    IF category = "urgent" THEN "critical"
    ELSE IF category = "academic" THEN "high"
    ELSE IF category = "administrative" THEN "low"
    ELSE "medium"

StaffRoles == {"staff", "faculty", "administrator"}

----------------------------------------------------------------------------
\* Properties

\* C1: once a grievance's resolvedAt is set, no later step changes it (setStatus
\* is idempotent on resolvedAt).
C1_ResolvedAtSetOnce ==
    [][\A i \in Ids :
          grievances[i].resolvedAt # NullTime
              => grievances'[i].resolvedAt = grievances[i].resolvedAt]_vars

\* C2: the grievance a successful submit returns has status submitted, the
\* priority resolvePriority gives its category, and an slaDeadline equal to its
\* own stored createdAt plus the offset of that priority.
C2_SubmitDeadlineFromCreatedAt ==
    (response.op = "submit" /\ response.code = 200) =>
        LET g == response.body[1]
        IN /\ g.status = "submitted"
           /\ g.priority = resolvePriority(response.arg)
           /\ g.slaDeadline = g.createdAt + OffsetMs(g.priority)

C5_ConfidentialNeverLeaks ==
    (response.op \in {"getGrievance", "getAll", "track", "getMy"} /\ response.code = 200) =>
        \A k \in 1 .. Len(response.body) :
            response.body[k].isConfidential =>
                \/ response.body[k].userId = response.actor
                \/ RoleOf(response.actor) = "administrator"

\* C6: GET by id answers 404 for an id that matches no grievance; otherwise it
\* returns the grievance exactly to its owner, to staff-level users when it is not
\* confidential, and to administrators; everyone else gets 403 and no data.
C6_ReadByIdRule ==
    response.op = "getGrievance" =>
        IF response.target \notin Ids
        THEN response.code = 404 /\ response.body = <<>>
        ELSE LET g == grievances[response.target]
                 role == RoleOf(response.actor)
                 visible == \/ g.userId = response.actor
                            \/ role \in StaffRoles /\ ~g.isConfidential
                            \/ role = "administrator"
             IN IF visible
                THEN response.code = 200 /\ response.body = <<g>>
                ELSE response.code = 403 /\ response.body = <<>>

\* C7: a status changes only in a successful setStatus by a staff, faculty or
\* administrator actor; priority and slaDeadline change only in a successful
\* setPriority by an administrator; a setStatus or setPriority by anyone else
\* (a subject with no user row included) is answered 403, and no step that does
\* not answer 200 adds a notification.
C7_OnlyAuthorizedChange ==
    [][/\ \A i \in Ids :
             grievances'[i].status # grievances[i].status =>
                 /\ response'.op = "setStatus" /\ response'.code = 200
                 /\ response'.target = i
                 /\ RoleOf(response'.actor) \in StaffRoles
       /\ \A i \in Ids :
             (\/ grievances'[i].priority # grievances[i].priority
              \/ grievances'[i].slaDeadline # grievances[i].slaDeadline) =>
                 /\ response'.op = "setPriority" /\ response'.code = 200
                 /\ response'.target = i
                 /\ RoleOf(response'.actor) = "administrator"
       /\ (\/ response'.op = "setStatus" /\ RoleOf(response'.actor) \notin StaffRoles
           \/ response'.op = "setPriority" /\ RoleOf(response'.actor) # "administrator")
             => response'.code = 403 /\ response'.body = <<>>
       /\ response'.code = 403 => UNCHANGED <<grievances, notifications, files>>
      ]_vars

\* C7 witness: a staff member's setPriority was answered 403 after a grievance
\* had been resolved by an authorized setStatus and still carries the priority
\* and deadline submit gave it.
C7_Witness ==
    /\ response.op = "setPriority" /\ response.code = 403
    /\ RoleOf(response.actor) = "staff"
    /\ \E i \in Ids :
          /\ grievances[i].status = "resolved"
          /\ grievances[i].priority = "critical"
          /\ grievances[i].slaDeadline = grievances[i].createdAt + 24 * MsPerHour

\* C8: a setStatus by an authorized actor on an id that matches no grievance is
\* answered 404.
C8_UnknownIdIs404 ==
    (response.op = "setStatus" /\ IsStaffLevel(response.actor) /\ response.target \notin Ids)
        => response.code = 404

\* C9: a submit whose category is outside the enumeration is answered 400 and
\* no grievance with such a category is ever stored.
C9_InvalidCategoryRejected ==
    /\ (response.op = "submit" /\ response.arg \notin Categories) => response.code = 400
    /\ \A i \in Ids : grievances[i].category \in Categories

\* C10: no two stored grievances have the same trackingId.
C10_TrackingIdsUnique ==
    \A i, j \in Ids :
        i # j => grievances[i].trackingId # grievances[j].trackingId

\* C11: a submit whose generated tracking id is already carried by a stored
\* grievance is not answered with a failure on that first collision (the one id
\* the call generated is not an exhausted series of retries), and the grievance
\* it stores does not carry the colliding id.
C11_CollisionIsRetried ==
    [][\A s \in 1 .. MaxInFlight :
          (/\ inflight[s].op = "submit"
           /\ inflight'[s] = Idle
           /\ inflight[s].data.category \in Categories
           /\ \E i \in Ids : grievances[i].trackingId = inflight[s].data.trackingId)
          => /\ response'.code = 200
             /\ Len(grievances') = Len(grievances) + 1
             /\ \A i \in Ids :
                   grievances'[i].trackingId # grievances'[Len(grievances')].trackingId]_vars

\* C12: a step that answers a submit, setStatus or setPriority with 200 for a
\* grievance that has an owner appends exactly one notification, unread,
\* addressed to the owner and referencing the grievance; for a grievance with
\* no owner it appends none; no other step changes the notifications, so no
\* notification ever refers to an anonymous grievance.
C12_OneNotificationPerChange ==
    [][/\ \A s \in 1 .. MaxInFlight :
             (/\ inflight[s] # Idle /\ inflight'[s] = Idle
              /\ response'.code = 200
              /\ response'.target \in 1 .. Len(grievances'))
             => LET g == grievances'[response'.target]
                    n == Len(notifications)
                IN IF g.userId # NoUser
                   THEN /\ Len(notifications') = n + 1
                        /\ SubSeq(notifications', 1, n) = notifications
                        /\ notifications'[n + 1].userId = g.userId
                        /\ notifications'[n + 1].grievanceId = g.id
                        /\ notifications'[n + 1].isRead = FALSE
                   ELSE notifications' = notifications
       /\ notifications' # notifications =>
             \E s \in 1 .. MaxInFlight :
                 inflight[s] # Idle /\ inflight'[s] = Idle /\ response'.code = 200
       /\ \A k \in 1 .. Len(notifications') :
             /\ notifications'[k].grievanceId \in 1 .. Len(grievances')
             /\ grievances'[notifications'[k].grievanceId].userId = notifications'[k].userId
             /\ notifications'[k].userId # NoUser
      ]_vars

\* C12 witness: a setPriority on an anonymous grievance has been answered 200
\* while the owner of another grievance holds the notifications of its submit
\* and nothing else.
C12_Witness ==
    /\ response.op = "setPriority" /\ response.code = 200
    /\ response.target \in Ids
    /\ grievances[response.target].userId = NoUser
    /\ Len(notifications) = 1
    /\ notifications[1].title = "Grievance Submitted"
    /\ notifications[1].grievanceId # response.target

\* C13: every comment whose write succeeded is still in the grievance's comment
\* list, whatever add-comment and status-change operations followed or ran
\* concurrently.
C13_NoCommentLost ==
    \A c \in writtenComments :
        \E k \in 1 .. Len(fsDoc.comments) : fsDoc.comments[k] = c

\* C14: a step in which submit, setStatus or setPriority answers its caller with
\* a failure leaves the grievances, the files and the notifications as they
\* were before the call.
C14_FailureLeavesNoTrace ==
    [][\A s \in 1 .. MaxInFlight :
          (inflight[s] # Idle /\ inflight'[s] = Idle /\ response'.code = 500)
          => UNCHANGED <<grievances, files, notifications>>]_vars

\* C15: the four counters dashboardStats returns are counts over one scope (all
\* grievances, or the caller's own): total its size, pending those whose status
\* is neither resolved nor closed, resolved those whose status is resolved or
\* closed, overdue those pending with an slaDeadline strictly before the time
\* of the call; all four are 0 when the scope is empty.
C15_StatsCountTheScope ==
    (response.op = "stats" /\ response.code = 200) =>
        LET stats == response.body[1]
            Done(i) == grievances[i].status \in {"resolved", "closed"}
            Late(i) == /\ ~Done(i)
                       /\ grievances[i].slaDeadline # NullTime
                       /\ grievances[i].slaDeadline < response.now
        IN \E scope \in {Ids, {i \in Ids : grievances[i].userId = response.actor}} :
              /\ stats.total = Cardinality(scope)
              /\ stats.pending = Cardinality({i \in scope : ~Done(i)})
              /\ stats.resolved = Cardinality({i \in scope : Done(i)})
              /\ stats.overdue = Cardinality({i \in scope : Late(i)})
              /\ scope = {} => stats = [total |-> 0, pending |-> 0, resolved |-> 0, overdue |-> 0]

\* C15 witness: counters asked exactly when one pending grievance reaches its
\* deadline (not overdue yet) while another has been closed.
C15_Witness ==
    /\ response.op = "stats" /\ response.code = 200
    /\ response.body[1] = [total |-> 2, pending |-> 1, resolved |-> 1, overdue |-> 0]
    /\ \E i \in Ids : grievances[i].slaDeadline = response.now /\ isPending(grievances[i])
    /\ \E i \in Ids : grievances[i].status = "closed"

\* C16: for a caller whose role is student the total counts the grievances whose
\* userId is the caller's; for a caller of any other role it counts them all;
\* on either backend.
C16_StatsScopedByRole ==
    (response.op = "stats" /\ response.code = 200 /\ UserExists(response.actor)) =>
        response.body[1].total =
            IF users[response.actor] = "student"
            THEN Cardinality({i \in Ids : grievances[i].userId = response.actor})
            ELSE Cardinality(Ids)

\* Total of resolvedAt - createdAt, in ms, over the grievances of a set of ids
RECURSIVE ResolutionMs(_)
ResolutionMs(S) ==
    IF S = {} THEN 0
    ELSE LET i == CHOOSE j \in S : TRUE
         IN (grievances[i].resolvedAt - grievances[i].createdAt) + ResolutionMs(S \ {i})

\* The calendar month an instant falls in, counted in months
MonthNumber(ms) == DateOf(ms).year * 12 + DateOf(ms).month

\* C17: the average resolution time analytics returns is the arithmetic mean, in
\* hours, of resolvedAt - createdAt over the grievances that have a resolvedAt,
\* and the number 0 when there is none.
C17_AvgResolutionIsMean ==
    (response.op = "analytics" /\ response.code = 200) =>
        LET a == response.body[1]
            R == {i \in Ids : grievances[i].resolvedAt # NullTime}
        IN /\ "avgResolutionTime" \in DOMAIN a
           /\ IF R = {}
              THEN a.avgResolutionTime = 0
              ELSE a.avgResolutionTime * Cardinality(R) * MsPerHour = ResolutionMs(R)

\* C18: the SLA compliance analytics returns is an integer in 0..100, the nearest
\* to 100 * c / n for n the grievances with both an slaDeadline and a resolvedAt
\* and c those of them resolved at or before the deadline; 0 when n = 0.
C18_SlaComplianceIsPercent ==
    (response.op = "analytics" /\ response.code = 200) =>
        LET a == response.body[1]
            W == {i \in Ids : grievances[i].slaDeadline # NullTime /\ grievances[i].resolvedAt # NullTime}
            n == Cardinality(W)
            c == Cardinality({i \in W : grievances[i].resolvedAt <= grievances[i].slaDeadline})
        IN /\ "slaCompliance" \in DOMAIN a
           /\ a.slaCompliance \in 0 .. 100
           /\ IF n = 0
              THEN a.slaCompliance = 0
              ELSE /\ 2 * n * a.slaCompliance - n <= 200 * c
                   /\ 200 * c < 2 * n * a.slaCompliance + n

\* C19: the monthly trends analytics returns are 6 entries, for the 6 calendar
\* months that end with the month of the call, oldest first, each with the
\* number of grievances created, respectively resolved, in that month and year.
C19_SixConsecutiveMonths ==
    (response.op = "analytics" /\ response.code = 200) =>
        LET a == response.body[1]
            current == MonthNumber(response.now)
        IN /\ "monthlyTrends" \in DOMAIN a
           /\ Len(a.monthlyTrends) = 6
           /\ \A k \in 1 .. 6 :
                 LET m == current - (6 - k)
                 IN /\ a.monthlyTrends[k].month = m % 12
                    /\ a.monthlyTrends[k].submitted =
                          Cardinality({i \in Ids : MonthNumber(grievances[i].createdAt) = m})
                    /\ a.monthlyTrends[k].resolved =
                          Cardinality({i \in Ids : /\ grievances[i].resolvedAt # NullTime
                                                   /\ MonthNumber(grievances[i].resolvedAt) = m})

\* C20: the priority submit derives from the category is critical for urgent,
\* high for academic, medium for infrastructure, low for administrative, and
\* medium for every other string.
C20_PriorityOfEveryCategory ==
    \A s \in 1 .. MaxInFlight :
        inflight[s].op = "submit" =>
            /\ inflight[s].data.priority \in Priorities
            /\ inflight[s].data.priority = resolvePriority(inflight[s].data.category)

\* C21: every deadline computed for a priority p at time t is t + offset(p):
\* 24 h for critical, 48 h for high, 72 h for medium, 120 h for low, and 72 h
\* for every other value.
C21_DeadlineIsTimePlusOffset ==
    \A s \in 1 .. MaxInFlight :
        /\ inflight[s].op = "submit" =>
              inflight[s].data.slaDeadline = inflight[s].now + OffsetMs(inflight[s].data.priority)
        /\ inflight[s].op = "setPriority" =>
              inflight[s].slaDeadline = inflight[s].now + OffsetMs(inflight[s].priority)

\* The stage of a status in the lifecycle the document describes:
\* submitted, then under_review / assigned / in_progress, then resolved / closed
Stage(status) ==
    CASE status = "submitted" -> 0
      [] status \in {"under_review", "assigned", "in_progress"} -> 1
      [] status \in {"resolved", "closed"} -> 2

\* C22: a comment posted to an id that matches no grievance is answered 404 and
\* is not stored, so every stored comment references an existing grievance.
C22_NoOrphanComment ==
    /\ (response.op = "addComment" /\ response.target \notin Ids) => response.code = 404
    /\ \A i \in 1 .. Len(comments) : comments[i].grievanceId \in Ids

\* C23: the status of every stored grievance is one of the six enum values, and
\* a status change that carries any other value is answered 400 and changes nothing.
C23_StatusInEnum ==
    /\ \A i \in Ids : grievances[i].status \in Statuses
    /\ (response.op = "setStatus" /\ response.code # 403 /\ response.arg \notin Statuses)
          => response.code = 400

\* Two rows that differ at most in status, resolvedAt and updatedAt / in
\* priority, slaDeadline and updatedAt
SameButStatus(g, h) ==
    [h EXCEPT !.status = g.status, !.resolvedAt = g.resolvedAt, !.updatedAt = g.updatedAt] = g

SameButPriority(g, h) ==
    [h EXCEPT !.priority = g.priority, !.slaDeadline = g.slaDeadline, !.updatedAt = g.updatedAt] = g

\* C24: in every step a stored grievance keeps its id, trackingId, createdAt,
\* isAnonymous and userId; the step that completes a status change leaves every
\* field but status, resolvedAt and updatedAt as it was, and the step that completes
\* a priority change every field but priority, slaDeadline and updatedAt.
C24_UpdatesKeepTheRest ==
    [][ /\ \A i \in Ids :
              /\ i \in 1 .. Len(grievances')
              /\ grievances'[i].id = grievances[i].id
              /\ grievances'[i].trackingId = grievances[i].trackingId
              /\ grievances'[i].createdAt = grievances[i].createdAt
              /\ grievances'[i].isAnonymous = grievances[i].isAnonymous
              /\ grievances'[i].userId = grievances[i].userId
        /\ \A s \in 1 .. MaxInFlight :
              /\ (inflight[s].op = "setStatus" /\ inflight'[s] = Idle) =>
                     \A i \in Ids : SameButStatus(grievances[i], grievances'[i])
              /\ (inflight[s].op = "setPriority" /\ inflight'[s] = Idle) =>
                     \A i \in Ids : SameButPriority(grievances[i], grievances'[i])
      ]_vars

\* A grievance that went through a status change and a priority change, later than its creation
C24_Witness ==
    \E i \in Ids :
        /\ grievances[i].status = "resolved"
        /\ grievances[i].priority = "low"
        /\ grievances[i].updatedAt > grievances[i].createdAt

\* C25: no step removes a record: each of the five tables keeps every row it had
\* (a row is identified by its position), and the assignments stored before a
\* step are still there, unchanged, after it.
C25_NothingIsRemoved ==
    [][ /\ Len(grievances') >= Len(grievances)
        /\ \A i \in Ids : grievances'[i].id = grievances[i].id
        /\ Len(comments') >= Len(comments)
        /\ Len(files') >= Len(files)
        /\ Len(notifications') >= Len(notifications)
        /\ Len(assignments') >= Len(assignments)
        /\ \A i \in 1 .. Len(assignments) : assignments'[i] = assignments[i]
      ]_vars

\* A grievance that was assigned twice, with rows in the other four tables as well
C25_Witness ==
    /\ Len(assignments) = 2
    /\ assignments[1].grievanceId = assignments[2].grievanceId
    /\ assignments[1].assignedTo # assignments[2].assignedTo
    /\ Len(comments) > 0
    /\ Len(files) > 0
    /\ Len(notifications) > 0

\* The auth listener has reported at least once and none of its callbacks is suspended
AuthSettled == nauth > 0 /\ getDocPending = {}

\* C26, over the React state: a protected route shows its children only when
\* loading is over and currentUser is set, an admin-only route only to role admin;
\* with loading over, no currentUser gives /login and a currentUser who is not
\* an admin gives /dashboard on an admin-only route.
RouteFollowsContext ==
    /\ \A adminOnly \in BOOLEAN :
          ProtectedRoute(adminOnly) = "children" =>
              /\ ~appLoading
              /\ currentUser # NullUser
              /\ adminOnly => currentUser.role = "admin"
    /\ ~appLoading =>
          /\ currentUser = NullUser =>
                 \A adminOnly \in BOOLEAN : ProtectedRoute(adminOnly) = "/login"
          /\ (currentUser # NullUser /\ currentUser.role # "admin") =>
                 ProtectedRoute(TRUE) = "/dashboard"

\* C26, over the visitor: once the listener has settled, a visitor who is not
\* signed in is sent to /login by every protected route, and a signed-in user who
\* is not an admin is not shown the children of an admin-only route.
RouteFollowsVisitor ==
    AuthSettled =>
        /\ authUser = NoUser =>
               \A adminOnly \in BOOLEAN : ProtectedRoute(adminOnly) = "/login"
        /\ (authUser # NoUser
              /\ ~(authUser \in DOMAIN userDocs /\ userDocs[authUser] = "admin")) =>
               ProtectedRoute(TRUE) # "children"

\* C26: a protected route renders its children only when loading is over and
\* currentUser is set, an admin-only route only for role admin; an
\* unauthenticated visitor is redirected to /login and an authenticated non-admin
\* is kept out of an admin-only route, in every state the auth events lead to.
C26_RouteFollowsAuthState == RouteFollowsContext /\ RouteFollowsVisitor

\* C27: a step never moves the status of a stored grievance to an earlier stage
\* of submitted -> {under_review, assigned, in_progress} -> {resolved, closed},
\* and a step in which only time passes changes no status.
C27_StatusMovesForward ==
    [][ \A i \in Ids :
           /\ (grievances[i].status \in Statuses /\ grievances'[i].status \in Statuses) =>
                  Stage(grievances'[i].status) >= Stage(grievances[i].status)
           /\ clock' # clock => grievances'[i].status = grievances[i].status
      ]_vars

\* C28: a step never takes a resolvedAt away; after every step each grievance
\* whose status is resolved or closed has a resolvedAt, and no resolvedAt is
\* earlier than the grievance's createdAt.
C28_ResolvedAtStays ==
    [][ /\ \A i \in Ids :
              grievances[i].resolvedAt # NullTime => grievances'[i].resolvedAt # NullTime
        /\ \A i \in 1 .. Len(grievances') :
              /\ grievances'[i].status \in {"resolved", "closed"} =>
                     grievances'[i].resolvedAt # NullTime
              /\ grievances'[i].resolvedAt # NullTime =>
                     grievances'[i].resolvedAt >= grievances'[i].createdAt
      ]_vars

\* A grievance resolved later than it was created and since moved to another status
C28_Witness ==
    \E i \in Ids :
        /\ grievances[i].status = "in_progress"
        /\ grievances[i].resolvedAt > grievances[i].createdAt

\* C29: in every result of dashboardStats total is the sum of pending and
\* resolved, and overdue is at most pending.
C29_StatsAddUp ==
    (response.op = "stats" /\ response.code = 200) =>
        /\ response.body[1].total = response.body[1].pending + response.body[1].resolved
        /\ response.body[1].overdue <= response.body[1].pending

\* Counters returned with a grievance resolved and another pending and past its deadline
C29_Witness ==
    /\ response.op = "stats" /\ response.code = 200
    /\ response.body[1].resolved > 0
    /\ response.body[1].overdue > 0
    /\ \E i \in Ids : grievances[i].status = "resolved"

\* C30: the timer of a registration attempt fires only while the attempt is
\* still running: never after the attempt has succeeded or failed, so the
\* time-out message never replaces the error of an attempt that already failed.
C30_TimeoutOnlyWhileRunning ==
    [][ \A n \in timers :
           (n \notin timers' /\ attempt'[n] = attempt[n] /\ registerError' = TimedOut) =>
               attempt[n] \in Running
      ]_vars

\* C30, second half: whenever the loading flag is set it is cleared later
LoadingEnds == registerLoading ~> ~registerLoading

====
